---------------------------- MODULE Spec2Model ----------------------------
(***************************************************************************)
(* Canteen reservation service: the in-memory store (students, canteens,   *)
(* reservations) and the request handlers of the student, canteen and      *)
(* reservation controllers, each handler one atomic action.                *)
(*                                                                         *)
(* Values.  An id is a positive integer (a fresh uuid is the next unused   *)
(* number); 0 is the falsy id (header or field absent, or empty).  A date  *)
(* "yyyy-MM-dd" is its day number (>= 1; 0 is the falsy date).  A time     *)
(* "HH:mm" is the pair <<HH, mm>> that time.split(':') yields; <<>> is the *)
(* empty (falsy) time.  An instant is a number of minutes: parse(date,     *)
(* time) = date * 1440 + HH * 60 + mm.  A request body is a record that    *)
(* may lack fields, as a JSON body may.                                    *)
(***************************************************************************)
EXTENDS Integers, Sequences, FiniteSets

VARIABLES
    students,       \* db.students: sequence of Student records
    canteens,       \* db.canteens: sequence of Canteen records
    reservations,   \* db.reservations: sequence of Reservation records
    issued,         \* number of canteen ids uuidv4() has handed out
    now,            \* the wall clock (new Date()), an instant
    req,            \* the reservation request being handled, if one is tracked
    res             \* the response sent last

vars == <<students, canteens, reservations, issued, now, req, res>>
db == <<students, canteens, reservations, issued>>

-----------------------------------------------------------------------------
(* Bounds of the model. *)

MaxStudents == 2
MaxCanteens == 2
MaxReservations == 2
MaxCapacity == 2
MaxTicks == 1

-----------------------------------------------------------------------------
(* Time grid and interval utilities. *)

MinutesPerDay == 24 * 60

\* parseInt(t.split(':')[0]) * 60 + parseInt(t.split(':')[1])
ToMin(t) == t[1] * 60 + t[2]

\* date-fns parse(`${date}T${time}`, "yyyy-MM-dd'T'HH:mm", ...)
parse(date, time) == date * MinutesPerDay + ToMin(time)

\* date-fns addMinutes
addMinutes(instant, minutes) == instant + minutes

\* date-fns isBefore
isBefore(a, b) == a < b

\* A faulty variant: ranges that share an endpoint overlap
isOverlappingClosed(startA, endA, startB, endB) == startA <= endB /\ endA >= startB

\* A faulty variant: two ranges overlap only when they start together
isOverlappingSameStart(startA, endA, startB, endB) == startA = startB

\* const isOverlapping = (startA, endA, startB, endB) => startA < endB && endA > startB
isOverlapping(startA, endA, startB, endB) == startA < endB /\ endA > startB

\* The span of a stored reservation.
rStart(r) == parse(r.date, r.time)
rEnd(r) == addMinutes(rStart(r), r.duration)

-----------------------------------------------------------------------------
(* Sequence helpers (Array.prototype.find / findIndex / some / filter). *)

Elems(s) == {s[i] : i \in DOMAIN s}

\* findIndex: the least index whose element has the id, 0 when there is none
FindIndex(s, id) ==
    IF \E i \in DOMAIN s : s[i].id = id
    THEN CHOOSE i \in DOMAIN s : s[i].id = id /\ \A j \in 1..(i - 1) : s[j].id # id
    ELSE 0

\* splice(index, 1)
Splice(s, index) == [i \in 1..(Len(s) - 1) |-> IF i < index THEN s[i] ELSE s[i + 1]]

Has(b, f) == f \in DOMAIN b

\* JavaScript truthiness of a body field, by the field's type
FalsyNum(b, f) == ~Has(b, f) \/ b[f] = 0
FalsyStr(b, f) == ~Has(b, f) \/ b[f] = ""
FalsyTime(b, f) == ~Has(b, f) \/ b[f] = <<>>
FalsyObj(b, f) == ~Has(b, f)

\* A faulty variant: { ...body, ...old }, the fields of the record win
SpreadOldWins(old, body) ==
    [f \in DOMAIN old \cup DOMAIN body |-> IF f \in DOMAIN old THEN old[f] ELSE body[f]]

\* { ...old, ...body }
Spread(old, body) ==
    [f \in DOMAIN old \cup DOMAIN body |-> IF f \in DOMAIN body THEN body[f] ELSE old[f]]

-----------------------------------------------------------------------------
(* Responses. *)

NoRequest == [none |-> TRUE]
NoResponse == [status |-> 0, msg |-> "", body |-> {}]

Send(status, msg) == [status |-> status, msg |-> msg, body |-> {}]
Json(status, record) == [status |-> status, msg |-> "", body |-> {record}]

-----------------------------------------------------------------------------
(* utils/helpers *)

\* A faulty variant: every stored student passes for an admin
isAdminAnyStudent(studentId) ==
    /\ studentId # 0
    /\ \E i \in DOMAIN students : students[i].id = studentId

isAdmin(studentId) ==
    /\ studentId # 0
    /\ \E i \in DOMAIN students : students[i].id = studentId /\ students[i].isAdmin

-----------------------------------------------------------------------------
(* Student controller. *)

\* A faulty variant: the uniqueness check compares names, not emails
createStudentUniqueName(body) ==
    /\ UNCHANGED <<canteens, reservations, issued, now>>
    /\ IF FalsyStr(body, "name") \/ FalsyStr(body, "email")
       THEN /\ res' = Send(400, "Missing required fields")
            /\ UNCHANGED students
       ELSE IF \E i \in DOMAIN students : students[i].name = body.name
       THEN /\ res' = Send(400, "Email already exists")
            /\ UNCHANGED students
       ELSE /\ Len(students) < MaxStudents
            /\ LET newStudent == [id |-> Len(students) + 1,
                                  name |-> body.name,
                                  email |-> body.email,
                                  isAdmin |-> Has(body, "isAdmin") /\ body.isAdmin]
               IN /\ students' = Append(students, newStudent)
                  /\ res' = Json(201, newStudent)

createStudent(body) ==
    /\ UNCHANGED <<canteens, reservations, issued, now>>
    /\ IF FalsyStr(body, "name") \/ FalsyStr(body, "email")
       THEN /\ res' = Send(400, "Missing required fields")
            /\ UNCHANGED students
       ELSE IF \E i \in DOMAIN students : students[i].email = body.email
       THEN /\ res' = Send(400, "Email already exists")
            /\ UNCHANGED students
       ELSE /\ Len(students) < MaxStudents
            /\ LET newStudent == [id |-> Len(students) + 1,
                                  name |-> body.name,
                                  email |-> body.email,
                                  isAdmin |-> Has(body, "isAdmin") /\ body.isAdmin]
               IN /\ students' = Append(students, newStudent)
                  /\ res' = Json(201, newStudent)

-----------------------------------------------------------------------------
(* Canteen controller. *)

createCanteen(studentId, body) ==
    /\ UNCHANGED <<students, reservations, now>>
    /\ IF ~isAdmin(studentId)
       THEN /\ res' = Send(403, "Unauthorized")
            /\ UNCHANGED <<canteens, issued>>
       ELSE IF \/ FalsyStr(body, "name") \/ FalsyStr(body, "location")
               \/ FalsyNum(body, "capacity") \/ FalsyObj(body, "workingHours")
       THEN /\ res' = Send(400, "Missing fields")
            /\ UNCHANGED <<canteens, issued>>
       ELSE /\ issued < MaxCanteens
            /\ LET newCanteen == [id |-> issued + 1,
                                  name |-> body.name,
                                  location |-> body.location,
                                  capacity |-> body.capacity,
                                  workingHours |-> body.workingHours]
               IN /\ canteens' = Append(canteens, newCanteen)
                  /\ issued' = issued + 1
                  /\ res' = Json(201, newCanteen)

updateCanteen(studentId, id, body) ==
    /\ UNCHANGED <<students, reservations, issued, now>>
    /\ IF ~isAdmin(studentId)
       THEN /\ res' = Send(403, "")
            /\ UNCHANGED canteens
       ELSE LET canteenIndex == FindIndex(canteens, id) IN
            IF canteenIndex = 0
            THEN /\ res' = Send(404, "")
                 /\ UNCHANGED canteens
            ELSE LET updatedCanteen == Spread(canteens[canteenIndex], body)
                 IN /\ canteens' = [canteens EXCEPT ![canteenIndex] = updatedCanteen]
                    /\ res' = Json(200, updatedCanteen)

\* A faulty variant: the cascade stops at the first reservation of the canteen
CascadeFirst(resvs, canteenId) ==
    [i \in DOMAIN resvs |->
        IF /\ resvs[i].canteenId = canteenId /\ resvs[i].status = "Active"
           /\ \A j \in 1..(i - 1) : resvs[j].canteenId # canteenId
        THEN [resvs[i] EXCEPT !.status = "Cancelled"]
        ELSE resvs[i]]

\* A faulty variant: the cascade cancels the reservations of every canteen
CascadeAll(resvs, canteenId) ==
    [i \in DOMAIN resvs |-> [resvs[i] EXCEPT !.status = "Cancelled"]]

\* db.reservations.forEach(r => { if (r.canteenId === canteenId && r.status === 'Active') ... })
Cascade(resvs, canteenId) ==
    [i \in DOMAIN resvs |->
        IF resvs[i].canteenId = canteenId /\ resvs[i].status = "Active"
        THEN [resvs[i] EXCEPT !.status = "Cancelled"]
        ELSE resvs[i]]

deleteCanteen(studentId, canteenId) ==
    /\ UNCHANGED <<students, issued, now>>
    /\ IF ~isAdmin(studentId)
       THEN /\ res' = Send(403, "")
            /\ UNCHANGED <<canteens, reservations>>
       ELSE LET index == FindIndex(canteens, canteenId) IN
            IF index = 0
            THEN /\ res' = Send(404, "")
                 /\ UNCHANGED <<canteens, reservations>>
            ELSE /\ canteens' = Splice(canteens, index)
                 /\ reservations' = Cascade(reservations, canteenId)
                 /\ res' = Send(204, "")

\* date-fns parse(date, 'yyyy-MM-dd', ...): the midnight that starts the day
parseDay(date) == date * MinutesPerDay

\* date-fns addDays
addDays(instant, days) == instant + days * MinutesPerDay

\* date-fns format(instant, 'yyyy-MM-dd')
formatDate(instant) == instant \div MinutesPerDay

\* date-fns format(instant, 'HH:mm')
formatTime(instant) == <<(instant % MinutesPerDay) \div 60, instant % 60>>

Max(a, b) == IF a >= b THEN a ELSE b

\* A faulty variant: a block matches as soon as the slot starts inside it
workingHourStartOnly(canteen, dateStr, currentSlotTime, slotEndTime) ==
    LET fits == {k \in DOMAIN canteen.workingHours :
                    /\ currentSlotTime >= parse(dateStr, canteen.workingHours[k].from)
                    /\ currentSlotTime < parse(dateStr, canteen.workingHours[k].to)}
    IN IF fits = {} THEN 0 ELSE CHOOSE k \in fits : \A l \in fits : k <= l

\* canteen.workingHours.find(wh => currentSlotTime >= whStart && slotEndTime <= whEnd):
\* the index of the first block that holds the slot, 0 when there is none
workingHour(canteen, dateStr, currentSlotTime, slotEndTime) ==
    LET fits == {k \in DOMAIN canteen.workingHours :
                    LET whStart == parse(dateStr, canteen.workingHours[k].from)
                        whEnd == parse(dateStr, canteen.workingHours[k].to)
                    IN currentSlotTime >= whStart /\ slotEndTime <= whEnd}
    IN IF fits = {} THEN 0 ELSE CHOOSE k \in fits : \A l \in fits : k <= l

\* A faulty variant: only the reservations that start with the slot are counted
activeReservationsSameStart(canteen, currentSlotTime, slotEndTime) ==
    Cardinality({i \in DOMAIN reservations :
        /\ ~(reservations[i].canteenId # canteen.id \/ reservations[i].status = "Cancelled")
        /\ currentSlotTime = rStart(reservations[i])})

\* A faulty variant: only the reservations as long as the slot are counted
activeReservationsSameDuration(canteen, currentSlotTime, slotEndTime) ==
    Cardinality({i \in DOMAIN reservations :
        /\ ~(reservations[i].canteenId # canteen.id \/ reservations[i].status = "Cancelled")
        /\ reservations[i].duration = slotEndTime - currentSlotTime
        /\ currentSlotTime < rEnd(reservations[i])
        /\ slotEndTime > rStart(reservations[i])})

\* A faulty variant: Cancelled reservations take a place as well
activeReservationsAnyStatus(canteen, currentSlotTime, slotEndTime) ==
    Cardinality({i \in DOMAIN reservations :
        /\ reservations[i].canteenId = canteen.id
        /\ currentSlotTime < rEnd(reservations[i])
        /\ slotEndTime > rStart(reservations[i])})

\* db.reservations.filter(r => same canteen, not Cancelled, overlapping the slot).length
activeReservations(canteen, currentSlotTime, slotEndTime) ==
    Cardinality({i \in DOMAIN reservations :
        /\ ~(reservations[i].canteenId # canteen.id \/ reservations[i].status = "Cancelled")
        /\ currentSlotTime < rEnd(reservations[i])
        /\ slotEndTime > rStart(reservations[i])})

\* A faulty variant: every slot is reported with the whole capacity
SlotAtWholeCapacity(canteen, dateStr, currentSlotTime, duration) ==
    LET slotEndTime == addMinutes(currentSlotTime, duration)
        k == workingHour(canteen, dateStr, currentSlotTime, slotEndTime)
    IN IF k # 0
       THEN << [date |-> dateStr,
                meal |-> canteen.workingHours[k].meal,
                startTime |-> formatTime(currentSlotTime),
                remainingCapacity |-> Max(0, canteen.capacity)] >>
       ELSE <<>>

\* The slots pushed for one candidate start: one when a block holds it, else none.
SlotAt(canteen, dateStr, currentSlotTime, duration) ==
    LET slotEndTime == addMinutes(currentSlotTime, duration)
        k == workingHour(canteen, dateStr, currentSlotTime, slotEndTime)
    IN IF k # 0
       THEN << [date |-> dateStr,
                meal |-> canteen.workingHours[k].meal,
                startTime |-> formatTime(currentSlotTime),
                remainingCapacity |->
                    Max(0, canteen.capacity
                            - activeReservations(canteen, currentSlotTime, slotEndTime))] >>
       ELSE <<>>

\* A faulty variant: the slots of a day come out latest first
RECURSIVE SlotsOfDayLatestFirst(_, _, _, _, _)
SlotsOfDayLatestFirst(canteen, dateStr, currentSlotTime, endSlotTime, duration) ==
    IF isBefore(currentSlotTime, endSlotTime)
    THEN SlotsOfDayLatestFirst(canteen, dateStr, addMinutes(currentSlotTime, duration),
                               endSlotTime, duration)
         \o SlotAt(canteen, dateStr, currentSlotTime, duration)
    ELSE <<>>

\* while (isBefore(currentSlotTime, endSlotTime)) { ... ; currentSlotTime += duration }
RECURSIVE SlotsOfDay(_, _, _, _, _)
SlotsOfDay(canteen, dateStr, currentSlotTime, endSlotTime, duration) ==
    IF isBefore(currentSlotTime, endSlotTime)
    THEN SlotAt(canteen, dateStr, currentSlotTime, duration)
         \o SlotsOfDay(canteen, dateStr, addMinutes(currentSlotTime, duration),
                       endSlotTime, duration)
    ELSE <<>>

\* A faulty variant: the day of endDate is left out
RECURSIVE SlotsFromDayExclusive(_, _, _, _, _, _)
SlotsFromDayExclusive(canteen, currentDay, finalDay, startTime, endTime, duration) ==
    IF isBefore(currentDay, finalDay)
    THEN LET dateStr == formatDate(currentDay)
             currentSlotTime == parse(dateStr, startTime)
             endSlotTime == parse(dateStr, endTime)
         IN SlotsOfDay(canteen, dateStr, currentSlotTime, endSlotTime, duration)
            \o SlotsFromDayExclusive(canteen, addDays(currentDay, 1), finalDay,
                                     startTime, endTime, duration)
    ELSE <<>>

\* while (isBefore(currentDay, finalDay) || isEqual(currentDay, finalDay)) { ... ; currentDay += 1 day }
RECURSIVE SlotsFromDay(_, _, _, _, _, _)
SlotsFromDay(canteen, currentDay, finalDay, startTime, endTime, duration) ==
    IF isBefore(currentDay, finalDay) \/ currentDay = finalDay
    THEN LET dateStr == formatDate(currentDay)
             currentSlotTime == parse(dateStr, startTime)
             endSlotTime == parse(dateStr, endTime)
         IN SlotsOfDay(canteen, dateStr, currentSlotTime, endSlotTime, duration)
            \o SlotsFromDay(canteen, addDays(currentDay, 1), finalDay,
                            startTime, endTime, duration)
    ELSE <<>>

calculateSlots(canteen, startDate, endDate, startTime, endTime, duration) ==
    SlotsFromDay(canteen, parseDay(startDate), parseDay(endDate),
                 startTime, endTime, duration)

\* parseInt of a query string, given as its characters: the value of the leading
\* decimal digits, NaN when the string does not start with a digit.
Digits == <<"0", "1", "2", "3", "4", "5", "6", "7", "8", "9">>
IsDigit(c) == \E d \in DOMAIN Digits : Digits[d] = c
DigitValue(c) == (CHOOSE d \in DOMAIN Digits : Digits[d] = c) - 1
NaN == 0 - 1

LeadingDigits(str) ==
    CHOOSE n \in 0..Len(str) :
        /\ \A i \in 1..n : IsDigit(str[i])
        /\ n = Len(str) \/ ~IsDigit(str[n + 1])

RECURSIVE Decimal(_, _)
Decimal(str, n) == IF n = 0 THEN 0 ELSE Decimal(str, n - 1) * 10 + DigitValue(str[n])

parseInt(str) ==
    IF LeadingDigits(str) = 0 THEN NaN ELSE Decimal(str, LeadingDigits(str))

\* !startDate || !endDate || !startTime || !endTime || !duration
missingQueryParameters(query) ==
    \/ FalsyNum(query, "startDate") \/ FalsyNum(query, "endDate")
    \/ FalsyTime(query, "startTime") \/ FalsyTime(query, "endTime")
    \/ FalsyTime(query, "duration")

SlotsFor(canteen, query) ==
    calculateSlots(canteen, query.startDate, query.endDate,
                   query.startTime, query.endTime, parseInt(query.duration))

\* The array of the global status, as a record holding the sequence.
getGlobalStatus(query) ==
    /\ UNCHANGED <<students, canteens, reservations, issued, now>>
    /\ IF missingQueryParameters(query)
       THEN res' = Send(400, "Missing query parameters")
       ELSE IF parseInt(query.duration) # 30 /\ parseInt(query.duration) # 60
       THEN res' = Send(400, "Duration must be 30 or 60 minutes")
       ELSE LET response == [k \in DOMAIN canteens |->
                                [canteenId |-> canteens[k].id,
                                 slots |-> SlotsFor(canteens[k], query)]]
            IN res' = Json(200, [items |-> response])

getCanteenStatus(id, query) ==
    /\ UNCHANGED <<students, canteens, reservations, issued, now>>
    /\ IF FindIndex(canteens, id) = 0
       THEN res' = Send(404, "")
       ELSE IF missingQueryParameters(query)
       THEN res' = Send(400, "Missing query parameters")
       ELSE IF parseInt(query.duration) # 30 /\ parseInt(query.duration) # 60
       THEN res' = Send(400, "Duration must be 30 or 60 minutes")
       ELSE LET canteen == canteens[FindIndex(canteens, id)]
                slots == SlotsFor(canteen, query)
            IN res' = Json(200, [canteenId |-> canteen.id, slots |-> slots])

-----------------------------------------------------------------------------
(* Reservation controller. *)

\* db.canteens.find(c => c.id === canteenId); only used when one exists
FindCanteen(canteenId) == canteens[FindIndex(canteens, canteenId)]

\* A faulty variant: the reservation has to lie between the earliest opening and
\* the latest closing
fitsInScheduleOverall(canteen, time, duration) ==
    /\ \E k \in DOMAIN canteen.workingHours :
            ToMin(time) >= ToMin(canteen.workingHours[k].from)
    /\ \E k \in DOMAIN canteen.workingHours :
            ToMin(time) + duration <= ToMin(canteen.workingHours[k].to)

\* A faulty variant: only the start of the reservation has to lie in a block
fitsInScheduleStartOnly(canteen, time, duration) ==
    \E k \in DOMAIN canteen.workingHours :
        /\ ToMin(time) >= ToMin(canteen.workingHours[k].from)
        /\ ToMin(time) < ToMin(canteen.workingHours[k].to)

\* canteen.workingHours.some(wh => resStartMin >= whFromMin && resEndMin <= whToMin)
fitsInSchedule(canteen, time, duration) ==
    \E k \in DOMAIN canteen.workingHours :
        LET wh == canteen.workingHours[k]
            whFromMin == ToMin(wh.from)
            whToMin == ToMin(wh.to)
            resStartMin == ToMin(time)
            resEndMin == resStartMin + duration
        IN resStartMin >= whFromMin /\ resEndMin <= whToMin

\* A faulty variant: a Cancelled reservation of the student still counts as a conflict
studentHasOverlapAnyStatus(studentId, start, end) ==
    \E i \in DOMAIN reservations :
        /\ reservations[i].studentId = studentId
        /\ isOverlapping(start, end, rStart(reservations[i]), rEnd(reservations[i]))

\* db.reservations.some(r => same student, not Cancelled, overlapping)
studentHasOverlap(studentId, reservationStart, reservationEnd) ==
    \E i \in DOMAIN reservations :
        LET r == reservations[i] IN
        /\ ~(r.studentId # studentId \/ r.status = "Cancelled")
        /\ isOverlapping(reservationStart, reservationEnd, rStart(r), rEnd(r))

\* A faulty variant: a Cancelled reservation still takes a place of the canteen
concurrentReservationsAnyStatus(canteenId, start, end) ==
    {i \in DOMAIN reservations :
        /\ reservations[i].canteenId = canteenId
        /\ isOverlapping(start, end, rStart(reservations[i]), rEnd(reservations[i]))}

\* db.reservations.filter(r => same canteen, not Cancelled, overlapping), as indices
concurrentReservations(canteenId, reservationStart, reservationEnd) ==
    {i \in DOMAIN reservations :
        LET r == reservations[i] IN
        /\ ~(r.canteenId # canteenId \/ r.status = "Cancelled")
        /\ isOverlapping(reservationStart, reservationEnd, rStart(r), rEnd(r))}

\* if (!studentId || !canteenId || !date || !time || !duration)
missingFields(body) ==
    \/ FalsyNum(body, "studentId") \/ FalsyNum(body, "canteenId")
    \/ FalsyNum(body, "date") \/ FalsyTime(body, "time") \/ FalsyNum(body, "duration")

\* !db.students.find(s => s.id === studentId)
studentNotFound(body) == ~\E i \in DOMAIN students : students[i].id = body.studentId

\* duration !== 30 && duration !== 60
invalidDuration(body) == body.duration # 30 /\ body.duration # 60

\* minutesPart !== '00' && minutesPart !== '30'
invalidTimeSlot(body) == body.time[2] # 0 /\ body.time[2] # 30

reservationStart(body) == parse(body.date, body.time)
reservationEnd(body) == addMinutes(reservationStart(body), body.duration)

\* A faulty variant: a reservation that starts at this very instant is past too
inThePastOrNow(body) == reservationStart(body) <= now

\* isBefore(reservationStart, new Date())
inThePast(body) == isBefore(reservationStart(body), now)

\* !db.canteens.find(c => c.id === canteenId)
canteenNotFound(body) == FindIndex(canteens, body.canteenId) = 0

outsideWorkingHours(body) ==
    ~fitsInSchedule(FindCanteen(body.canteenId), body.time, body.duration)

doubleBooked(body) ==
    studentHasOverlap(body.studentId, reservationStart(body), reservationEnd(body))

\* A faulty variant: the request is refused only when the capacity is exceeded already
capacityReachedBeyond(body) ==
    Cardinality(concurrentReservations(body.canteenId, reservationStart(body),
                                       reservationEnd(body)))
        > FindCanteen(body.canteenId).capacity

\* concurrentReservations.length >= canteen.capacity
capacityReached(body) ==
    Cardinality(concurrentReservations(body.canteenId, reservationStart(body),
                                       reservationEnd(body)))
        >= FindCanteen(body.canteenId).capacity

\* A faulty variant: the capacity is checked before the student's own reservations
ValidateCapacityFirst(body) ==
    IF missingFields(body) THEN "Missing required fields"
    ELSE IF studentNotFound(body) THEN "Student not found"
    ELSE IF invalidDuration(body) THEN "Duration must be 30 or 60 minutes"
    ELSE IF invalidTimeSlot(body) THEN "Time must start on the hour or half hour"
    ELSE IF inThePast(body) THEN "Cannot create reservations in the past"
    ELSE IF canteenNotFound(body) THEN "Canteen not found"
    ELSE IF outsideWorkingHours(body) THEN "Reservation is outside of working hours"
    ELSE IF capacityReached(body) THEN "Canteen capacity reached for this slot"
    ELSE IF doubleBooked(body) THEN "Student already has a reservation at this time"
    ELSE ""

\* A faulty variant: the duration is checked after the canteen lookup
ValidateDurationLate(body) ==
    IF missingFields(body) THEN "Missing required fields"
    ELSE IF studentNotFound(body) THEN "Student not found"
    ELSE IF invalidTimeSlot(body) THEN "Time must start on the hour or half hour"
    ELSE IF inThePast(body) THEN "Cannot create reservations in the past"
    ELSE IF canteenNotFound(body) THEN "Canteen not found"
    ELSE IF invalidDuration(body) THEN "Duration must be 30 or 60 minutes"
    ELSE IF outsideWorkingHours(body) THEN "Reservation is outside of working hours"
    ELSE IF doubleBooked(body) THEN "Student already has a reservation at this time"
    ELSE IF capacityReached(body) THEN "Canteen capacity reached for this slot"
    ELSE ""

\* The checks of createReservation in the order of the code: the message of the
\* first check that fails, "" when the request is admissible.
Validate(body) ==
    IF missingFields(body) THEN "Missing required fields"
    ELSE IF studentNotFound(body) THEN "Student not found"
    ELSE IF invalidDuration(body) THEN "Duration must be 30 or 60 minutes"
    ELSE IF invalidTimeSlot(body) THEN "Time must start on the hour or half hour"
    ELSE IF inThePast(body) THEN "Cannot create reservations in the past"
    ELSE IF canteenNotFound(body) THEN "Canteen not found"
    ELSE IF outsideWorkingHours(body) THEN "Reservation is outside of working hours"
    ELSE IF doubleBooked(body) THEN "Student already has a reservation at this time"
    ELSE IF capacityReached(body) THEN "Canteen capacity reached for this slot"
    ELSE ""

\* A faulty variant: the new id is drawn from the number of Active reservations
createReservationCountsActive(body) ==
    /\ UNCHANGED <<students, canteens, issued, now>>
    /\ LET msg == Validate(body) IN
       IF msg # ""
       THEN /\ res' = Send(400, msg)
            /\ UNCHANGED reservations
       ELSE /\ Len(reservations) < MaxReservations
            /\ LET live == {i \in DOMAIN reservations : reservations[i].status = "Active"}
                   newReservation == [id |-> Cardinality(live) + 1,
                                      status |-> "Active",
                                      studentId |-> body.studentId,
                                      canteenId |-> body.canteenId,
                                      date |-> body.date,
                                      time |-> body.time,
                                      duration |-> body.duration]
               IN /\ reservations' = Append(reservations, newReservation)
                  /\ res' = Json(201, newReservation)

\* A faulty variant: a request refused for capacity is kept as a Cancelled record
createReservationKeepsRefused(body) ==
    /\ UNCHANGED <<students, canteens, issued, now>>
    /\ LET msg == Validate(body)
           newReservation == [id |-> Len(reservations) + 1,
                              status |-> IF msg = "" THEN "Active" ELSE "Cancelled",
                              studentId |-> body.studentId,
                              canteenId |-> body.canteenId,
                              date |-> body.date,
                              time |-> body.time,
                              duration |-> body.duration]
       IN IF msg # "" /\ msg # "Canteen capacity reached for this slot"
          THEN /\ res' = Send(400, msg)
               /\ UNCHANGED reservations
          ELSE /\ Len(reservations) < MaxReservations
               /\ reservations' = Append(reservations, newReservation)
               /\ res' = IF msg = "" THEN Json(201, newReservation) ELSE Send(400, msg)

\* createReservation: the first failing check is answered 400; otherwise the new
\* Active record, with a fresh id, is pushed and answered 201
createReservation(body) ==
    /\ UNCHANGED <<students, canteens, issued, now>>
    /\ LET msg == Validate(body) IN
       IF msg # ""
       THEN /\ res' = Send(400, msg)
            /\ UNCHANGED reservations
       ELSE /\ Len(reservations) < MaxReservations
            /\ LET newReservation == [id |-> Len(reservations) + 1,
                                      status |-> "Active",
                                      studentId |-> body.studentId,
                                      canteenId |-> body.canteenId,
                                      date |-> body.date,
                                      time |-> body.time,
                                      duration |-> body.duration]
               IN /\ reservations' = Append(reservations, newReservation)
                  /\ res' = Json(201, newReservation)

\* A faulty variant: cancelling a Cancelled reservation makes it Active again
SetCancelledToggles(resvs, index) ==
    [resvs EXCEPT ![index].status =
        IF resvs[index].status = "Cancelled" THEN "Active" ELSE "Cancelled"]

\* A faulty variant: cancelling one reservation cancels those before it as well
SetCancelledUpTo(resvs, index) ==
    [i \in DOMAIN resvs |->
        IF i <= index THEN [resvs[i] EXCEPT !.status = "Cancelled"] ELSE resvs[i]]

\* reservation.status = 'Cancelled', in place
SetCancelled(resvs, index) == [resvs EXCEPT ![index].status = "Cancelled"]

\* A faulty variant: an unknown id cancels the oldest reservation instead of failing
cancelReservationNoLookup(id) ==
    /\ UNCHANGED <<students, canteens, issued, now>>
    /\ LET index == IF FindIndex(reservations, id) = 0 /\ reservations # <<>>
                    THEN 1 ELSE FindIndex(reservations, id) IN
       IF index = 0
       THEN /\ res' = Send(404, "Reservation not found")
            /\ UNCHANGED reservations
       ELSE /\ reservations' = SetCancelled(reservations, index)
            /\ res' = Json(200, [reservations[index] EXCEPT !.status = "Cancelled"])

cancelReservation(id) ==
    /\ UNCHANGED <<students, canteens, issued, now>>
    /\ LET index == FindIndex(reservations, id) IN
       IF index = 0
       THEN /\ res' = Send(404, "Reservation not found")
            /\ UNCHANGED reservations
       ELSE /\ reservations' = SetCancelled(reservations, index)
            /\ res' = Json(200, reservations'[index])

-----------------------------------------------------------------------------
(* The wall clock. *)

ClockStep == 30
ClockStart == parse(2, <<11, 0>>)

Tick ==
    /\ now < ClockStart + MaxTicks * ClockStep
    /\ now' = now + ClockStep
    /\ UNCHANGED <<students, canteens, reservations, issued, req, res>>

-----------------------------------------------------------------------------
(* Inputs of the requests. *)

Blk(meal, from, to) == [meal |-> meal, from |-> from, to |-> to]

\* Two adjacent blocks, 11:00-12:00 and 12:00-13:00.
WHAdjacent ==
    <<Blk("lunch", <<11, 0>>, <<12, 0>>), Blk("dinner", <<12, 0>>, <<13, 0>>)>>

\* Two overlapping blocks, 11:00-12:00 and 11:30-12:30 (the code does not forbid them).
WHOverlap ==
    <<Blk("breakfast", <<11, 0>>, <<12, 0>>), Blk("lunch", <<11, 30>>, <<12, 30>>)>>

\* One admin and one ordinary student (isAdmin absent from the body).
StudentBodies ==
    { [name |-> "Ana", email |-> "ana@x", isAdmin |-> TRUE],
      [name |-> "Bo", email |-> "bo@x"] }

\* The studentId header: 0 when absent, else an id that may or may not be known.
Headers == 0..MaxStudents
CanteenIds == 1..MaxCanteens
ReservationIds == 1..(MaxReservations + 1)

CanteenBodiesOf(capacities, hours) ==
    [name : {"Menza"}, location : {"NS"}, capacity : capacities, workingHours : hours]

ReservationBodiesOf(studentIds, canteenIds, dates, times, durations) ==
    [studentId : studentIds, canteenId : canteenIds, date : dates, time : times,
     duration : durations]

GridTimes == {<<11, 0>>, <<11, 30>>}

\* Well-formed reservation requests (every field present, on the grid, 30 or 60)
\* for the day the clock starts in.
ReservationBodies ==
    ReservationBodiesOf(1..MaxStudents, CanteenIds, {2}, GridTimes, {30, 60})

Without(b, g) == [f \in (DOMAIN b) \ {g} |-> b[f]]

\* Requests of any shape: falsy values (0, the empty time), a field absent,
\* unknown ids, a past day, a time off the grid, a duration other than 30 or 60.
AnyReservationBodies ==
    ReservationBodiesOf(0..MaxStudents, 0..MaxCanteens, 0..2,
                        {<<>>, <<11, 0>>, <<11, 15>>, <<11, 30>>}, {0, 30, 45, 60})
    \cup {Without([studentId |-> 1, canteenId |-> 1, date |-> 2, time |-> <<11, 30>>,
                    duration |-> 45], g) :
            g \in {"studentId", "canteenId", "date", "time", "duration"}}

-----------------------------------------------------------------------------
(* The service. *)

Init ==
    /\ students = <<>>
    /\ canteens = <<>>
    /\ reservations = <<>>
    /\ issued = 0
    /\ now = ClockStart
    /\ req = NoRequest
    /\ res = NoResponse

\* Canteens open 11:00-12:00 and 12:00-13:00; an update lowers the capacity to 1.
\* Requests are handled as they arrive; none is tracked.
Next ==
    \/ \E body \in StudentBodies : createStudent(body) /\ UNCHANGED req
    \/ \E h \in Headers, body \in CanteenBodiesOf(1..MaxCapacity, {WHAdjacent}) :
            createCanteen(h, body) /\ UNCHANGED req
    \/ \E h \in Headers, id \in CanteenIds, body \in [capacity : {1}] :
            updateCanteen(h, id, body) /\ UNCHANGED req
    \/ \E h \in Headers, id \in CanteenIds : deleteCanteen(h, id) /\ UNCHANGED req
    \/ \E body \in ReservationBodies : createReservation(body) /\ UNCHANGED req
    \/ \E id \in ReservationIds : cancelReservation(id) /\ UNCHANGED req
    \/ Tick

Spec == Init /\ [][Next]_vars

\* The handlers of Next but updateCanteen.
NextNoUpdate ==
    \/ \E body \in StudentBodies : createStudent(body) /\ UNCHANGED req
    \/ \E h \in Headers, body \in CanteenBodiesOf(1..MaxCapacity, {WHAdjacent}) :
            createCanteen(h, body) /\ UNCHANGED req
    \/ \E h \in Headers, id \in CanteenIds : deleteCanteen(h, id) /\ UNCHANGED req
    \/ \E body \in ReservationBodies : createReservation(body) /\ UNCHANGED req
    \/ \E id \in ReservationIds : cancelReservation(id) /\ UNCHANGED req
    \/ Tick

SpecNoUpdate == Init /\ [][NextNoUpdate]_vars

\* A reservation request of any shape arrives and is then handled; the server
\* handles one request at a time.
Submit(body) ==
    /\ req = NoRequest
    /\ req' = body
    /\ res' = NoResponse
    /\ UNCHANGED <<students, canteens, reservations, issued, now>>

Serve ==
    /\ req # NoRequest
    /\ createReservation(req)
    /\ req' = NoRequest

Idle(A) == req = NoRequest /\ A /\ UNCHANGED req

\* The reservation requests of any shape, over canteens of capacity 1.
NextRequests ==
    \/ \E body \in StudentBodies : Idle(createStudent(body))
    \/ \E h \in 1..MaxStudents, body \in CanteenBodiesOf({1}, {WHAdjacent}) :
            Idle(createCanteen(h, body))
    \/ \E body \in AnyReservationBodies : Submit(body)
    \/ Serve
    \/ Idle(Tick)

SpecRequests == Init /\ [][NextRequests]_vars

\* Canteens whose blocks are adjacent or overlap, and whose hours are replaced
\* by updates, while reservations are made and cancelled.
NextHours ==
    \/ \E body \in StudentBodies : createStudent(body) /\ UNCHANGED req
    \/ \E h \in 1..MaxStudents, body \in CanteenBodiesOf({MaxCapacity}, {WHAdjacent, WHOverlap}) :
            createCanteen(h, body) /\ UNCHANGED req
    \/ \E h \in 1..MaxStudents, id \in CanteenIds,
          body \in [workingHours : {WHAdjacent, WHOverlap}] :
            updateCanteen(h, id, body) /\ UNCHANGED req
    \/ \E body \in ReservationBodies : createReservation(body) /\ UNCHANGED req
    \/ \E id \in ReservationIds : cancelReservation(id) /\ UNCHANGED req

SpecHours == Init /\ [][NextHours]_vars

\* Student requests of any shape: names and emails present, empty or absent,
\* with and without the isAdmin flag.
AnyStudentBodies ==
    LET full == [name : {"", "Ana", "Bo"}, email : {"", "ana@x", "bo@x", "cy@x"},
                 isAdmin : BOOLEAN]
    IN full \cup {Without(b, "isAdmin") : b \in full}
            \cup {Without(b, "name") : b \in full}
            \cup {Without(b, "email") : b \in full}

NextStudents ==
    \E body \in AnyStudentBodies : createStudent(body) /\ UNCHANGED req

SpecStudents == Init /\ [][NextStudents]_vars

\* Two blocks with a gap between them, 11:00-11:30 and 12:00-13:00.
WHGap ==
    <<Blk("breakfast", <<11, 0>>, <<11, 30>>), Blk("lunch", <<12, 0>>, <<13, 0>>)>>

\* Blocks that overlap (11:00-12:00, 11:30-12:30) and blocks that are adjacent
\* (11:30-12:30, 12:30-13:00).
WHMixed ==
    <<Blk("breakfast", <<11, 0>>, <<12, 0>>), Blk("lunch", <<11, 30>>, <<12, 30>>),
      Blk("dinner", <<12, 30>>, <<13, 0>>)>>

\* The status queries: a window that starts before or at the first block and
\* ends with the last, over one day, two days or a range whose end precedes its
\* start; a window that ends inside the hours; a duration with trailing text;
\* and queries that are refused.
StatusQueries ==
    [startDate : {2}, endDate : {1, 2, 3}, startTime : {<<10, 30>>, <<11, 0>>},
     endTime : {<<13, 0>>}, duration : {<<"3", "0">>, <<"6", "0">>}]
    \cup [startDate : {2}, endDate : {2}, startTime : {<<11, 0>>}, endTime : {<<12, 0>>},
          duration : {<<"3", "0">>, <<"6", "0">>}]
    \cup [startDate : {2}, endDate : {2}, startTime : {<<11, 0>>}, endTime : {<<13, 0>>},
          duration : {<<"4", "5">>, <<"3", "0", "m">>, <<>>}]

StatusRequests ==
    [route : {"canteenStatus"}, id : CanteenIds, query : StatusQueries]
    \cup [route : {"globalStatus"}, query : StatusQueries]

ServeStatus ==
    /\ req # NoRequest
    /\ IF req.route = "canteenStatus"
       THEN getCanteenStatus(req.id, req.query)
       ELSE getGlobalStatus(req.query)
    /\ req' = NoRequest

\* Status queries, one at a time, over a store in which canteens with
\* overlapping and adjacent blocks are created and have their capacity lowered,
\* and half-hour reservations are made and cancelled.
NextSlots ==
    \/ \E body \in StudentBodies : Idle(createStudent(body))
    \/ \E h \in 1..MaxStudents, body \in CanteenBodiesOf({MaxCapacity}, {WHMixed}) :
            Idle(createCanteen(h, body))
    \/ \E h \in 1..MaxStudents, id \in CanteenIds, body \in [capacity : {1}] :
            Idle(updateCanteen(h, id, body))
    \/ \E body \in ReservationBodiesOf(1..MaxStudents, CanteenIds, {2}, GridTimes, {30}) :
            Idle(createReservation(body))
    \/ \E id \in 1..MaxReservations : Idle(cancelReservation(id))
    \/ \E request \in StatusRequests : Submit(request)
    \/ ServeStatus

SpecSlots == Init /\ [][NextSlots]_vars

-----------------------------------------------------------------------------
(* getCanteenStatus, one loop pass at a time. A request that passes the checks
   made first enters calculateSlots; req then carries the locals of the call.
   Handlers run to completion, so the store stays as it is meanwhile. *)

\* The request in flight is inside calculateSlots.
InCalculateSlots == req # NoRequest /\ "pc" \in DOMAIN req

\* canteen found, parameters present, durationNum 30 or 60: calculateSlots is called
enterCalculateSlots ==
    /\ req # NoRequest /\ "route" \in DOMAIN req /\ ~InCalculateSlots
    /\ FindIndex(canteens, req.id) # 0
    /\ ~missingQueryParameters(req.query)
    /\ ~(parseInt(req.query.duration) # 30 /\ parseInt(req.query.duration) # 60)
    /\ req' = [route |-> req.route, id |-> req.id, query |-> req.query,
               pc |-> "days",
               canteen |-> canteens[FindIndex(canteens, req.id)],
               duration |-> parseInt(req.query.duration),
               resultSlots |-> <<>>,
               currentDay |-> parseDay(req.query.startDate),
               finalDay |-> parseDay(req.query.endDate),
               currentSlotTime |-> 0,
               endSlotTime |-> 0]
    /\ UNCHANGED <<students, canteens, reservations, issued, now, res>>

\* one of the checks made first answers the request
refuseStatus ==
    /\ req # NoRequest /\ "route" \in DOMAIN req /\ ~InCalculateSlots
    /\ \/ FindIndex(canteens, req.id) = 0
       \/ missingQueryParameters(req.query)
       \/ parseInt(req.query.duration) # 30 /\ parseInt(req.query.duration) # 60
    /\ getCanteenStatus(req.id, req.query)
    /\ req' = NoRequest

\* The test of the outer loop: the day is entered, or the loop is left.
dayLoop ==
    /\ InCalculateSlots /\ req.pc = "days"
    /\ IF isBefore(req.currentDay, req.finalDay) \/ req.currentDay = req.finalDay
       THEN LET dateStr == formatDate(req.currentDay) IN
            req' = [req EXCEPT !.pc = "slots",
                               !.currentSlotTime = parse(dateStr, req.query.startTime),
                               !.endSlotTime = parse(dateStr, req.query.endTime)]
       ELSE req' = [req EXCEPT !.pc = "return"]
    /\ UNCHANGED <<students, canteens, reservations, issued, now, res>>

\* A faulty variant: the slot time is not moved on
slotLoopNoAdvance ==
    /\ InCalculateSlots /\ req.pc = "slots"
    /\ IF isBefore(req.currentSlotTime, req.endSlotTime)
       THEN req' = [req EXCEPT
                !.resultSlots = @ \o SlotAt(req.canteen, formatDate(req.currentDay),
                                           req.currentSlotTime, req.duration)]
       ELSE req' = [req EXCEPT !.pc = "days", !.currentDay = addDays(@, 1)]
    /\ UNCHANGED <<students, canteens, reservations, issued, now, res>>

\* The test of the inner loop: a pass of its body, which ends by moving the
\* slot time on by the duration, or the end of the day's pass, which moves the
\* day on by one.
slotLoop ==
    /\ InCalculateSlots /\ req.pc = "slots"
    /\ IF isBefore(req.currentSlotTime, req.endSlotTime)
       THEN req' = [req EXCEPT
                !.resultSlots = @ \o SlotAt(req.canteen, formatDate(req.currentDay),
                                           req.currentSlotTime, req.duration),
                !.currentSlotTime = addMinutes(@, req.duration)]
       ELSE req' = [req EXCEPT !.pc = "days", !.currentDay = addDays(@, 1)]
    /\ UNCHANGED <<students, canteens, reservations, issued, now, res>>

\* return resultSlots; res.json({canteenId, slots})
returnSlots ==
    /\ InCalculateSlots /\ req.pc = "return"
    /\ res' = Json(200, [canteenId |-> req.canteen.id, slots |-> req.resultSlots])
    /\ req' = NoRequest
    /\ UNCHANGED <<students, canteens, reservations, issued, now>>

\* createReservation, for a reservation request in flight
serveReservation == req # NoRequest /\ "route" \notin DOMAIN req /\ Serve

\* The steps of a request in flight.
Running ==
    enterCalculateSlots \/ refuseStatus \/ dayLoop \/ slotLoop \/ returnSlots
    \/ serveReservation

\* Requests for the status of one canteen and for reservations, served step by
\* step, over a store in which reservations are cancelled too. A reservation
\* request is taken while the store has room for one more record.
NextLoops ==
    \/ \E body \in StudentBodies : Idle(createStudent(body))
    \/ \E h \in 1..MaxStudents, body \in CanteenBodiesOf({1}, {WHMixed}) :
            Idle(createCanteen(h, body))
    \/ \E id \in 1..MaxReservations : Idle(cancelReservation(id))
    \/ \E body \in ReservationBodiesOf(1..MaxStudents, {1}, {2}, GridTimes, {30}) :
            Len(reservations) < MaxReservations /\ Submit(body)
    \/ \E request \in [route : {"canteenStatus"}, id : CanteenIds, query : StatusQueries] :
            Submit(request)
    \/ enterCalculateSlots
    \/ refuseStatus
    \/ dayLoop
    \/ slotLoop
    \/ returnSlots
    \/ serveReservation

\* A handler that was entered keeps running until it returns.
SpecLoops == Init /\ [][NextLoops]_vars /\ WF_vars(Running)

-----------------------------------------------------------------------------
(* Two reservation requests in flight at once. Each is handled by one call of
   createReservation, which has no await: the calls run one after the other,
   in either order. req carries both bodies, the reservations as they were
   when the requests arrived, and the status each was answered with. *)

PairInFlight == req # NoRequest /\ "pair" \in DOMAIN req

arrivePair(body1, body2) ==
    /\ req = NoRequest
    /\ req' = [pair |-> <<body1, body2>>, open |-> {1, 2}, before |-> reservations,
               status |-> <<0, 0>>]
    /\ res' = NoResponse
    /\ UNCHANGED <<students, canteens, reservations, issued, now>>

\* the handler runs for one of the two requests, from its first check to its response
servePair(k) ==
    /\ PairInFlight
    /\ k \in req.open
    /\ createReservation(req.pair[k])
    /\ req' = [req EXCEPT !.open = @ \ {k}, !.status[k] = res'.status]

\* both responses are out
closePair ==
    /\ PairInFlight
    /\ req.open = {}
    /\ req' = NoRequest
    /\ UNCHANGED <<students, canteens, reservations, issued, now, res>>

\* Pairs of reservation requests, served in either order, over canteens of
\* capacity 1..MaxCapacity. A pair is taken while the store has room for a
\* record.
NextRace ==
    \/ \E body \in StudentBodies : Idle(createStudent(body))
    \/ \E h \in 1..MaxStudents, body \in CanteenBodiesOf(1..MaxCapacity, {WHAdjacent}) :
            Idle(createCanteen(h, body))
    \/ \E body1, body2 \in ReservationBodies :
            Len(reservations) < MaxReservations /\ arrivePair(body1, body2)
    \/ \E k \in {1, 2} : servePair(k)
    \/ closePair

SpecRace == Init /\ [][NextRace]_vars

-----------------------------------------------------------------------------
(* Updates of canteens, tracked one at a time. *)

\* Bodies of PUT /canteens/:id: a lower capacity, other hours, both, or an id.
UpdateBodies ==
    [capacity : {1}] \cup [workingHours : {WHGap}]
    \cup [capacity : {1}, workingHours : {WHGap}] \cup [id : CanteenIds]

UpdateRequests ==
    [route : {"updateCanteen"}, studentId : 1..MaxStudents, id : CanteenIds,
     body : UpdateBodies]

ServeUpdate ==
    /\ req # NoRequest
    /\ updateCanteen(req.studentId, req.id, req.body)
    /\ req' = NoRequest

\* Canteens of capacity MaxCapacity open 11:00-12:00 and 12:00-13:00, half-hour
\* reservations, and updates that lower the capacity, cut the hours to
\* 11:00-11:30 and 12:00-13:00, or overwrite the id.
NextUpdate ==
    \/ \E body \in StudentBodies : Idle(createStudent(body))
    \/ \E h \in 1..MaxStudents, body \in CanteenBodiesOf({MaxCapacity}, {WHAdjacent}) :
            Idle(createCanteen(h, body))
    \/ \E body \in ReservationBodiesOf(1..MaxStudents, CanteenIds, {2}, GridTimes, {30}) :
            Idle(createReservation(body))
    \/ \E request \in UpdateRequests : Submit(request)
    \/ ServeUpdate

SpecUpdate == Init /\ [][NextUpdate]_vars

\* Reservations of 30 and of 60 minutes made and cancelled in canteens of
\* capacity 1..MaxCapacity with overlapping and adjacent blocks; no request is
\* tracked.
NextPlaces ==
    \/ \E body \in StudentBodies : createStudent(body) /\ UNCHANGED req
    \/ \E h \in 1..MaxStudents, body \in CanteenBodiesOf(1..MaxCapacity, {WHMixed}) :
            createCanteen(h, body) /\ UNCHANGED req
    \/ \E body \in ReservationBodies : createReservation(body) /\ UNCHANGED req
    \/ \E id \in 1..MaxReservations : cancelReservation(id) /\ UNCHANGED req

SpecPlaces == Init /\ [][NextPlaces]_vars

\* Well-formed reservation requests, one at a time, over canteens whose two
\* blocks are adjacent or leave a gap.
NextBlocks ==
    \/ \E body \in StudentBodies : Idle(createStudent(body))
    \/ \E h \in 1..MaxStudents, body \in CanteenBodiesOf({MaxCapacity}, {WHAdjacent, WHGap}) :
            Idle(createCanteen(h, body))
    \/ \E body \in ReservationBodies : Submit(body)
    \/ Serve

SpecBlocks == Init /\ [][NextBlocks]_vars

\* Well-formed reservation requests, one at a time, over canteens of every
\* capacity, while reservations are cancelled.
NextCapacity ==
    \/ \E body \in StudentBodies : Idle(createStudent(body))
    \/ \E h \in 1..MaxStudents, body \in CanteenBodiesOf(1..MaxCapacity, {WHAdjacent}) :
            Idle(createCanteen(h, body))
    \/ \E body \in ReservationBodies : Submit(body)
    \/ Serve
    \/ \E id \in ReservationIds : Idle(cancelReservation(id))

SpecCapacity == Init /\ [][NextCapacity]_vars

-----------------------------------------------------------------------------
(* Vocabulary of the properties: spans as sets of instants. *)

Active(r) == r.status = "Active"

\* The instants (minutes) of the half-open span [date+time, date+time+duration).
Span(r) == rStart(r)..(rEnd(r) - 1)

SpansMeet(r1, r2) == Span(r1) \cap Span(r2) # {}

ActiveAt(canteenId, t) ==
    {i \in DOMAIN reservations :
        /\ reservations[i].canteenId = canteenId
        /\ Active(reservations[i])
        /\ t \in Span(reservations[i])}

\* Every instant at which the number of running reservations can change.
Instants == UNION {Span(reservations[i]) : i \in DOMAIN reservations}

-----------------------------------------------------------------------------
\* C1: in every reachable state no student holds two distinct Active
\* reservations whose half-open spans share an instant, in the same canteen or
\* in different ones.
NoStudentDoubleBooked ==
    \A i, j \in DOMAIN reservations :
        /\ i # j
        /\ Active(reservations[i]) /\ Active(reservations[j])
        /\ reservations[i].studentId = reservations[j].studentId
        => ~SpansMeet(reservations[i], reservations[j])

\* A student holds two Active reservations, back to back, in two canteens.
TwoActiveOfOneStudent ==
    \E i, j \in DOMAIN reservations :
        /\ i # j
        /\ Active(reservations[i]) /\ Active(reservations[j])
        /\ reservations[i].studentId = reservations[j].studentId
        /\ reservations[i].canteenId # reservations[j].canteenId
        /\ rEnd(reservations[i]) = rStart(reservations[j])

\* C2: in every reachable state, for every canteen of the store and every
\* instant, the Active reservations of the canteen whose span holds the instant
\* number at most the canteen's capacity.
CapacityNeverExceeded ==
    \A k \in DOMAIN canteens : \A t \in Instants :
        Cardinality(ActiveAt(canteens[k].id, t)) <= canteens[k].capacity

-----------------------------------------------------------------------------
(* The nine admission checks, each stated on its own over a request body and  *)
(* the store.  A check that cannot be evaluated (the canteen of the hours     *)
(* check does not exist, the start of the past check has no date) does not    *)
(* fail; an earlier check fails in each such case.                            *)

Min(S) == CHOOSE x \in S : \A y \in S : x <= y

FieldsPresent(b) ==
    /\ Has(b, "studentId") /\ b.studentId # 0
    /\ Has(b, "canteenId") /\ b.canteenId # 0
    /\ Has(b, "date") /\ b.date # 0
    /\ Has(b, "time") /\ b.time # <<>>
    /\ Has(b, "duration") /\ b.duration # 0

StudentKnown(b) ==
    Has(b, "studentId") /\ \E s \in Elems(students) : s.id = b.studentId

CanteenKnown(b) ==
    Has(b, "canteenId") /\ \E c \in Elems(canteens) : c.id = b.canteenId

CanteenOf(b) == CHOOSE c \in Elems(canteens) : c.id = b.canteenId

Timed(b) ==
    /\ Has(b, "date") /\ b.date # 0
    /\ Has(b, "time") /\ b.time # <<>>
    /\ Has(b, "duration")

StartOf(b) == b.date * MinutesPerDay + b.time[1] * 60 + b.time[2]

RequestSpan(b) == StartOf(b)..(StartOf(b) + b.duration - 1)

\* The blocks (indices) of a canteen that hold the whole span of the request.
BlocksHolding(c, b) ==
    {k \in DOMAIN c.workingHours :
        /\ b.time[1] * 60 + b.time[2] >= ToMin(c.workingHours[k].from)
        /\ b.time[1] * 60 + b.time[2] + b.duration <= ToMin(c.workingHours[k].to)}

ActiveOverlapping(b) ==
    {i \in DOMAIN reservations :
        Active(reservations[i]) /\ Span(reservations[i]) \cap RequestSpan(b) # {}}

FailsCheck(k, b) ==
    CASE k = 1 -> ~FieldsPresent(b)
      [] k = 2 -> ~StudentKnown(b)
      [] k = 3 -> ~(Has(b, "duration") /\ b.duration \in {30, 60})
      [] k = 4 -> ~(Has(b, "time") /\ b.time # <<>> /\ b.time[2] \in {0, 30})
      [] k = 5 -> Timed(b) /\ StartOf(b) < now
      [] k = 6 -> ~CanteenKnown(b)
      [] k = 7 -> CanteenKnown(b) /\ Timed(b) /\ BlocksHolding(CanteenOf(b), b) = {}
      [] k = 8 -> /\ Timed(b) /\ Has(b, "studentId")
                  /\ \E i \in ActiveOverlapping(b) :
                        reservations[i].studentId = b.studentId
      [] k = 9 -> /\ Timed(b) /\ CanteenKnown(b)
                  /\ Cardinality({i \in ActiveOverlapping(b) :
                                    reservations[i].canteenId = b.canteenId})
                        >= CanteenOf(b).capacity

FailedChecks(b) == {k \in 1..9 : FailsCheck(k, b)}

CheckMessage ==
    << "Missing required fields",
       "Student not found",
       "Duration must be 30 or 60 minutes",
       "Time must start on the hour or half hour",
       "Cannot create reservations in the past",
       "Canteen not found",
       "Reservation is outside of working hours",
       "Student already has a reservation at this time",
       "Canteen capacity reached for this slot" >>

\* A step in which the tracked request is handled.
Served == req # NoRequest /\ req' = NoRequest

-----------------------------------------------------------------------------
\* C3: every createReservation request is answered with the rejection of the
\* first check it fails, in the order MissingFields, StudentNotFound,
\* InvalidDuration, InvalidTimeSlot, PastReservation, CanteenNotFound,
\* OutsideWorkingHours, StudentDoubleBooked, CapacityExceeded, and with 201
\* exactly when it fails none of the nine.
FirstFailingCheckReported ==
    [][Served =>
        IF FailedChecks(req) = {}
        THEN res'.status = 201
        ELSE res' = Send(400, CheckMessage[Min(FailedChecks(req))])]_vars

\* A request of an unknown student for a canteen when the store holds none (it
\* fails the student check and the canteen check) was answered "Student not found".
SeveralFailuresReported ==
    /\ req = NoRequest
    /\ res = Send(400, "Student not found")
    /\ canteens = <<>>

\* C4 as stated: a duration other than 30 and 60 is answered InvalidDuration
\* whatever the other four fields are.
InvalidDurationWhateverTheRest ==
    [][Served /\ Has(req, "duration") /\ req.duration \notin {30, 60}
        => res' = Send(400, "Duration must be 30 or 60 minutes")]_vars

\* C4, amended: when the five fields are present and non-empty and the student
\* exists, a duration other than 30 and 60 is answered InvalidDuration whatever
\* canteenId, date and time are.
InvalidDurationAfterPresenceAndStudent ==
    [][Served /\ FieldsPresent(req) /\ StudentKnown(req) /\ req.duration \notin {30, 60}
        => res' = Send(400, "Duration must be 30 or 60 minutes")]_vars

\* InvalidDuration was the answer although the store holds no canteen at all.
InvalidDurationWithoutCanteen ==
    /\ req = NoRequest
    /\ res = Send(400, "Duration must be 30 or 60 minutes")
    /\ canteens = <<>>

-----------------------------------------------------------------------------
\* A step that accepts a reservation: the record is appended to the store.
Accepts == Len(reservations') = Len(reservations) + 1

LastReservation == reservations[Len(reservations)]

CanteenWithId(id) == CHOOSE c \in Elems(canteens) : c.id = id

\* C5 as stated: the span of every accepted reservation lies within exactly one
\* of the blocks its canteen declares when the reservation is accepted.
AcceptedWithinExactlyOneBlock ==
    [][Accepts =>
        LET r == reservations'[Len(reservations')] IN
        Cardinality(BlocksHolding(CanteenWithId(r.canteenId), r)) = 1]_vars

\* C5, amended: the span of every accepted reservation lies entirely within at
\* least one of the blocks its canteen declares when the reservation is
\* accepted; a span only partly inside a block, or inside none, is never accepted.
AcceptedWithinSomeBlock ==
    [][Accepts =>
        LET r == reservations'[Len(reservations')] IN
        BlocksHolding(CanteenWithId(r.canteenId), r) # {}]_vars

\* The reservation just accepted lies in two blocks of its canteen at once.
AcceptedWithinTwoBlocks ==
    /\ reservations # <<>>
    /\ res = Json(201, LastReservation)
    /\ Cardinality(BlocksHolding(CanteenWithId(LastReservation.canteenId),
                                 LastReservation)) = 2

-----------------------------------------------------------------------------
\* The request that repeats a stored reservation.
BodyOf(r) ==
    [studentId |-> r.studentId, canteenId |-> r.canteenId, date |-> r.date,
     time |-> r.time, duration |-> r.duration]

Ids(s) == {s[i].id : i \in DOMAIN s}

\* C6 as stated: right after cancelReservation answered with the cancelled
\* record r (whose canteen is still in the store, so r was Active until a
\* cancelReservation), the same student's request for the same canteen, date,
\* time and duration is answered 201.
RebookAfterCancelSucceeds ==
    [][\A i \in DOMAIN reservations :
        /\ res = Json(200, reservations[i])
        /\ reservations[i].status = "Cancelled"
        /\ CanteenKnown(reservations[i])
        /\ createReservation(BodyOf(reservations[i]))
        => res'.status = 201]_vars

\* The other Active reservations that stand in the way of repeating record i.
OthersOfStudent(i) ==
    {j \in DOMAIN reservations \ {i} :
        /\ Active(reservations[j])
        /\ reservations[j].studentId = reservations[i].studentId
        /\ SpansMeet(reservations[j], reservations[i])}

OthersOfCanteen(i) ==
    {j \in DOMAIN reservations \ {i} :
        /\ Active(reservations[j])
        /\ reservations[j].canteenId = reservations[i].canteenId
        /\ SpansMeet(reservations[j], reservations[i])}

RebookAdmissible(i) ==
    LET r == reservations[i] IN
    /\ rStart(r) >= now
    /\ CanteenKnown(r)
    /\ BlocksHolding(CanteenWithId(r.canteenId), r) # {}
    /\ OthersOfStudent(i) = {}
    /\ Cardinality(OthersOfCanteen(i)) < CanteenWithId(r.canteenId).capacity

\* C6, amended: a request that repeats a Cancelled reservation r is decided as
\* if r were not in the store.  It is answered 201, with a new Active record of
\* the same fields and an id no record had, exactly when the start of r is not
\* before the clock, the canteen exists and one of its blocks holds the span, no
\* other Active reservation of the student overlaps the span and fewer than
\* capacity other Active reservations of the canteen do; r stays Cancelled.
CancelledRecordDoesNotCount ==
    [][\A i \in DOMAIN reservations :
        reservations[i].status = "Cancelled" /\ createReservation(BodyOf(reservations[i]))
        => /\ res'.status = 201 <=> RebookAdmissible(i)
           /\ res'.status = 201 =>
                LET new == reservations'[Len(reservations')] IN
                /\ Accepts
                /\ res' = Json(201, new)
                /\ new.status = "Active"
                /\ BodyOf(new) = BodyOf(reservations[i])
                /\ new.id \notin Ids(reservations)
                /\ reservations'[i] = reservations[i]]_vars

\* A cancelled reservation and, accepted last, an Active one that repeats it.
RebookedAfterCancel ==
    /\ reservations # <<>>
    /\ res = Json(201, LastReservation)
    /\ \E i \in DOMAIN reservations :
        /\ reservations[i].status = "Cancelled"
        /\ BodyOf(reservations[i]) = BodyOf(LastReservation)
        /\ reservations[i].id # LastReservation.id

\* C7: a request that passes the first eight checks is answered
\* CapacityExceeded exactly when the Active reservations of the same canteen
\* whose span overlaps the requested span number at least the canteen's
\* capacity, and 201 otherwise; Cancelled reservations and those of other
\* canteens are not counted.
CapacityDecidesLastCheck ==
    [][Served /\ (\A k \in 1..8 : ~FailsCheck(k, req))
        => LET taken == {i \in ActiveOverlapping(req) :
                            reservations[i].canteenId = req.canteenId}
           IN IF Cardinality(taken) >= CanteenOf(req).capacity
              THEN res' = Send(400, "Canteen capacity reached for this slot")
                   /\ reservations' = reservations
              ELSE res'.status = 201 /\ Accepts]_vars

\* A request was answered CapacityExceeded by a canteen of capacity N >= 1 that
\* holds N Active reservations beside a Cancelled one.
CapacityReachedAnswered ==
    /\ req = NoRequest
    /\ res = Send(400, "Canteen capacity reached for this slot")
    /\ \E k \in DOMAIN canteens :
        /\ canteens[k].capacity >= 1
        /\ \E i \in DOMAIN reservations :
                ~Active(reservations[i]) /\ reservations[i].canteenId = canteens[k].id
        /\ Cardinality({i \in DOMAIN reservations :
                Active(reservations[i]) /\ reservations[i].canteenId = canteens[k].id})
             = canteens[k].capacity

\* C8: cancelReservation on an id of the store answers 200 with the record, sets
\* its status to Cancelled and changes no other field and no other record, nor
\* a student or a canteen; on a record that is already Cancelled it answers 200
\* again and leaves the store as it is.
CancelOnlySetsStatus ==
    [][\A id \in ReservationIds :
        cancelReservation(id) /\ id \in Ids(reservations)
        => LET i == CHOOSE i \in DOMAIN reservations : reservations[i].id = id IN
           /\ Len(reservations') = Len(reservations)
           /\ \A j \in DOMAIN reservations \ {i} : reservations'[j] = reservations[j]
           /\ reservations'[i].status = "Cancelled"
           /\ [reservations'[i] EXCEPT !.status = reservations[i].status] = reservations[i]
           /\ res' = Json(200, reservations'[i])
           /\ students' = students /\ canteens' = canteens
           /\ reservations[i].status = "Cancelled" => reservations' = reservations]_vars

\* A cancellation was answered with the Cancelled record while another
\* reservation of the store is Active.
CancelledBesideActive ==
    \E i, j \in DOMAIN reservations :
        /\ res = Json(200, reservations[i])
        /\ reservations[i].status = "Cancelled"
        /\ reservations[j].status = "Active"

\* C9: cancelReservation with an id no reservation has answers 404
\* "Reservation not found" and leaves students, canteens and reservations as
\* they are.
CancelUnknownNotFound ==
    [][\A id \in ReservationIds :
        cancelReservation(id) /\ id \notin Ids(reservations)
        => /\ res' = Send(404, "Reservation not found")
           /\ students' = students /\ canteens' = canteens
           /\ reservations' = reservations]_vars

\* NotFound was answered while the store holds an Active reservation.
NotFoundBesideActive ==
    /\ res = Send(404, "Reservation not found")
    /\ \E i \in DOMAIN reservations : reservations[i].status = "Active"

\* C10: a deleteCanteen of canteen c by an admin removes c from the store and
\* sets to Cancelled every Active reservation of c; the reservations of other
\* canteens keep their status, those of c already Cancelled stay as they are,
\* no reservation is removed and no other field changes.
DeleteCancelsOwnReservations ==
    [][\A h \in Headers, id \in CanteenIds :
        deleteCanteen(h, id) /\ isAdmin(h) /\ id \in Ids(canteens)
        => /\ res' = Send(204, "")
           /\ id \notin Ids(canteens')
           /\ Elems(canteens') = Elems(canteens) \ {CanteenWithId(id)}
           /\ Len(reservations') = Len(reservations)
           /\ \A i \in DOMAIN reservations :
                LET old == reservations[i]
                    new == reservations'[i]
                IN /\ [new EXCEPT !.status = old.status] = old
                   /\ new.status = IF old.canteenId = id THEN "Cancelled" ELSE old.status]_vars

\* A canteen was deleted: a reservation of a canteen that is gone is Cancelled
\* and a reservation of a canteen still in the store is Active.
CascadeBesideActive ==
    /\ res = Send(204, "")
    /\ \E i, j \in DOMAIN reservations :
        /\ reservations[i].status = "Cancelled"
        /\ reservations[i].canteenId \notin Ids(canteens)
        /\ reservations[j].status = "Active"
        /\ reservations[j].canteenId \in Ids(canteens)

-----------------------------------------------------------------------------
\* The header names a stored student whose record has isAdmin = true.
AdminRecord(h) ==
    \E s \in Elems(students) : s.id = h /\ s.isAdmin = TRUE

CanteenStepBy(h) ==
    \/ \E body \in CanteenBodiesOf(1..MaxCapacity, {WHAdjacent}) : createCanteen(h, body)
    \/ \E id \in CanteenIds, body \in [capacity : {1}] : updateCanteen(h, id, body)
    \/ \E id \in CanteenIds : deleteCanteen(h, id)

-----------------------------------------------------------------------------
UniqueEmails(s) ==
    \A i, j \in DOMAIN s : s[i].email = s[j].email => i = j

-----------------------------------------------------------------------------
DistinctIds(s) ==
    \A i, j \in DOMAIN s : s[i].id = s[j].id => i = j

\* C13: a createReservation answered 201 appends exactly one record, Active,
\* with the requested studentId, canteenId, date, time and duration and an id no
\* reservation of the store has, and leaves the existing records as they are;
\* the ids of the reservations are pairwise distinct in every state.
AcceptedAppendsFreshRecord ==
    [][/\ DistinctIds(reservations')
       /\ Served /\ res'.status = 201
            => /\ Len(reservations') = Len(reservations) + 1
               /\ \A i \in DOMAIN reservations : reservations'[i] = reservations[i]
               /\ LET new == reservations'[Len(reservations')] IN
                  /\ res' = Json(201, new)
                  /\ new.status = "Active"
                  /\ BodyOf(new) = req
                  /\ new.id \notin Ids(reservations)]_vars

\* A reservation was accepted into a store that holds a Cancelled one.
AcceptedBesideCancelled ==
    /\ req = NoRequest
    /\ Len(reservations) = 2
    /\ res = Json(201, reservations[2])
    /\ reservations[1].status = "Cancelled"

-----------------------------------------------------------------------------
(* Vocabulary of the status responses. *)

\* The {canteenId, slots} records of a 200 response to a status request.
Reports(request, response) ==
    IF request.route = "canteenStatus"
    THEN response.body
    ELSE UNION {Elems(rec.items) : rec \in response.body}

StatusAnswered == Served /\ res'.status = 200

\* The {canteenId, slots} records of the response in res, when it is one to a
\* status request.
Reported ==
    {rec \in res.body : "slots" \in DOMAIN rec}
    \cup UNION {Elems(rec.items) : rec \in {x \in res.body : "items" \in DOMAIN x}}

SlotBefore(s1, s2) ==
    \/ s1.date < s2.date
    \/ s1.date = s2.date /\ ToMin(s1.startTime) < ToMin(s2.startTime)

\* C14: the slots of every status response are in ascending order of date and,
\* within a date, in strictly ascending order of start time, so no (date,
\* startTime) pair appears twice.
SlotsAscending ==
    [][StatusAnswered =>
        \A rep \in Reports(req, res') :
            \A i, j \in DOMAIN rep.slots :
                i < j => SlotBefore(rep.slots[i], rep.slots[j])]_vars

\* A response holds several slots of one date followed by slots of the next.
SlotsOfTwoDates ==
    \E rep \in Reported :
        /\ Len(rep.slots) >= 4
        /\ rep.slots[1].date = rep.slots[2].date
        /\ rep.slots[1].date < rep.slots[Len(rep.slots)].date

\* The (date, minute of the day) pairs a status query asks about and the
\* canteen can serve: the dates from startDate to endDate, the starts
\* startTime + k * duration before endTime, the spans that one block holds.
Candidates(canteen, query) ==
    LET duration == parseInt(query.duration)
        first == ToMin(query.startTime)
    IN {<<date, first + k * duration>> :
            date \in query.startDate..query.endDate,
            k \in {k \in 0..(MinutesPerDay \div duration) :
                    /\ first + k * duration < ToMin(query.endTime)
                    /\ \E b \in Elems(canteen.workingHours) :
                        /\ first + k * duration >= ToMin(b.from)
                        /\ first + k * duration + duration <= ToMin(b.to)}}

\* C15: for each date of the range, the slots of a status response are exactly
\* the starts startTime + k * duration (k >= 0) that lie before endTime and
\* whose span [start, start + duration) one working-hour block of the canteen
\* holds, each once; a candidate that no block holds is not reported at all.
SlotsAreTheFittingCandidates ==
    [][StatusAnswered =>
        \A rep \in Reports(req, res') :
            LET canteen == CanteenWithId(rep.canteenId)
                starts == {<<rep.slots[i].date, ToMin(rep.slots[i].startTime)>> :
                                i \in DOMAIN rep.slots}
            IN /\ starts = Candidates(canteen, req.query)
               /\ Len(rep.slots) = Cardinality(starts)]_vars

\* A response of one slot, 11:30: of the hourly candidates 10:30, 11:30 and
\* 12:30 the first and the last are held by no block.
OnlyFittingCandidateReported ==
    \E rep \in Reported :
        /\ Len(rep.slots) = 1
        /\ rep.slots[1].startTime = <<11, 30>>

\* The Active reservations of a canteen whose span meets the span of a slot.
TakenIn(canteenId, slot, duration) ==
    LET from == parse(slot.date, slot.startTime) IN
    {i \in DOMAIN reservations :
        /\ Active(reservations[i])
        /\ reservations[i].canteenId = canteenId
        /\ Span(reservations[i]) \cap (from..(from + duration - 1)) # {}}

\* C16: every slot of a status response for canteen c (whose capacity is a
\* positive integer) carries remainingCapacity = max(0, c.capacity - n), n being
\* the number of Active reservations of c whose span overlaps the span of the
\* slot; Cancelled reservations and those of other canteens are not counted,
\* and the value is never negative and never above c.capacity.
RemainingCapacityCountsActive ==
    [][StatusAnswered =>
        \A rep \in Reports(req, res') : \A i \in DOMAIN rep.slots :
            LET capacity == CanteenWithId(rep.canteenId).capacity
                n == Cardinality(TakenIn(rep.canteenId, rep.slots[i],
                                         parseInt(req.query.duration)))
                remaining == rep.slots[i].remainingCapacity
            IN /\ remaining = IF capacity - n > 0 THEN capacity - n ELSE 0
               /\ remaining >= 0
               /\ remaining <= capacity]_vars

\* A slot is reported with no place left by a canteen whose capacity was
\* lowered to 1 while it holds two Active reservations starting with the slot.
FullSlotReported ==
    \E rep \in Reported : \E k \in DOMAIN rep.slots :
        /\ rep.slots[k].remainingCapacity = 0
        /\ CanteenWithId(rep.canteenId).capacity = 1
        /\ \E i, j \in DOMAIN reservations :
            /\ i # j
            /\ Active(reservations[i]) /\ Active(reservations[j])
            /\ reservations[i].canteenId = rep.canteenId
            /\ reservations[j].canteenId = rep.canteenId
            /\ rStart(reservations[i]) = parse(rep.slots[k].date, rep.slots[k].startTime)
            /\ rStart(reservations[j]) = parse(rep.slots[k].date, rep.slots[k].startTime)

-----------------------------------------------------------------------------
\* The Active reservations a request has to clear: those of its student and
\* those of its canteen.
Concerned(b) ==
    {i \in DOMAIN reservations :
        /\ Active(reservations[i])
        /\ \/ reservations[i].studentId = b.studentId
           \/ reservations[i].canteenId = b.canteenId}

Touches(b, r) ==
    \/ rEnd(r) = StartOf(b)
    \/ StartOf(b) + b.duration = rStart(r)

Apart(b, r) ==
    \/ rEnd(r) <= StartOf(b)
    \/ StartOf(b) + b.duration <= rStart(r)

\* C17: two spans overlap iff startA < endB and endA > startB, that is iff
\* they share an instant, so spans that only touch at an endpoint do not
\* conflict: a request that passes the first seven checks, and whose span only
\* touches or lies apart from every Active reservation of its student and of
\* its canteen (one of them ending where it starts or starting where it ends),
\* is accepted.
TouchingSpansDoNotConflict ==
    [][Served =>
        /\ \A i \in DOMAIN reservations :
            isOverlapping(StartOf(req), StartOf(req) + req.duration,
                          rStart(reservations[i]), rEnd(reservations[i]))
            <=> RequestSpan(req) \cap Span(reservations[i]) # {}
        /\ (/\ \A k \in 1..7 : ~FailsCheck(k, req)
            /\ \A i \in Concerned(req) : Apart(req, reservations[i])
            /\ \E i \in Concerned(req) : Touches(req, reservations[i]))
           => res'.status = 201 /\ Accepts]_vars

\* A student who holds an Active reservation had the half hour that starts
\* where it ends accepted, in the same canteen of capacity 1.
TouchingAccepted ==
    /\ req = NoRequest
    /\ Len(reservations) = 2
    /\ res = Json(201, reservations[2])
    /\ Active(reservations[1])
    /\ reservations[1].studentId = reservations[2].studentId
    /\ reservations[1].canteenId = reservations[2].canteenId
    /\ rEnd(reservations[1]) = rStart(reservations[2])
    /\ CanteenWithId(reservations[2].canteenId).capacity = 1

-----------------------------------------------------------------------------
\* C18: the working-hours check is made against each block separately: a
\* request that passes the first six checks and whose span no single block of
\* the canteen holds is rejected with OutsideWorkingHours and nothing is
\* stored, also when the span lies within two adjacent blocks taken together
\* (11:30 for 60 minutes with blocks 11:00-12:00 and 12:00-13:00) and when it
\* starts where a block ends before a gap (11:30 for 30 minutes with blocks
\* 11:00-11:30 and 12:00-13:00).
EachBlockCheckedAlone ==
    [][Served /\ (\A k \in 1..6 : ~FailsCheck(k, req))
              /\ BlocksHolding(CanteenOf(req), req) = {}
        => /\ res' = Send(400, "Reservation is outside of working hours")
           /\ reservations' = reservations]_vars

\* A request was rejected for the working hours while every canteen of the
\* store has the adjacent blocks 11:00-12:00 and 12:00-13:00, which together
\* hold each of the requests.
SpanningAdjacentBlocksRejected ==
    /\ req = NoRequest
    /\ res = Send(400, "Reservation is outside of working hours")
    /\ canteens # <<>>
    /\ \A c \in Elems(canteens) : c.workingHours = WHAdjacent

-----------------------------------------------------------------------------
\* C19: the status of a reservation is one-way: no step of createReservation,
\* cancelReservation, createCanteen, updateCanteen, deleteCanteen or
\* createStudent removes a reservation, changes its id, studentId, canteenId,
\* date, time or duration, or makes a Cancelled reservation Active; so a
\* reservation that is Cancelled is Cancelled in every later state.
StatusIsOneWay ==
    [][/\ Len(reservations') >= Len(reservations)
       /\ \A i \in DOMAIN reservations :
            /\ [reservations'[i] EXCEPT !.status = reservations[i].status] = reservations[i]
            /\ reservations[i].status = "Cancelled" => reservations'[i].status = "Cancelled"]_vars

\* The canteen of a Cancelled reservation was updated after the cancellation,
\* in a store that holds a second reservation.
CancelledThroughUpdate ==
    /\ Len(reservations) = 2
    /\ reservations[1].status = "Cancelled"
    /\ \E c \in Elems(canteens) :
        c.id = reservations[1].canteenId /\ res = Json(200, c)

-----------------------------------------------------------------------------
\* C20 as stated: a createReservation request whose duration is 0 and whose
\* other four fields are present and valid (a stored student, a stored
\* canteen, a date and a time on the half-hour grid, not in the past) is
\* rejected with InvalidDuration, "Duration must be 30 or 60 minutes".
DurationZeroIsInvalidDuration ==
    [][/\ Served
       /\ Has(req, "duration") /\ req.duration = 0
       /\ StudentKnown(req) /\ CanteenKnown(req)
       /\ Has(req, "date") /\ req.date # 0
       /\ Has(req, "time") /\ req.time # <<>> /\ req.time[2] \in {0, 30}
       /\ StartOf(req) >= now
       => res' = Send(400, "Duration must be 30 or 60 minutes")]_vars

-----------------------------------------------------------------------------
\* C21: the past check looks at the start instant only and is strict: a
\* request that passes the first four checks is answered PastReservation when
\* its start (date + time) is before the clock, whatever its end, and is not
\* answered PastReservation when its start is at the clock or after it.
PastCheckIsStrictOnStart ==
    [][Served /\ (\A k \in 1..4 : ~FailsCheck(k, req))
        => IF StartOf(req) < now
           THEN res' = Send(400, "Cannot create reservations in the past")
           ELSE res'.msg # "Cannot create reservations in the past"]_vars

\* After the clock moved, a reservation that starts at the very instant of the
\* clock was accepted.
StartingNowAccepted ==
    /\ req = NoRequest
    /\ now > ClockStart
    /\ reservations # <<>>
    /\ res = Json(201, LastReservation)
    /\ rStart(LastReservation) = now

-----------------------------------------------------------------------------
\* The start times a response reports for one date, in the order reported.
StartsOn(rep, date) ==
    LET onDate == SelectSeq(rep.slots, LAMBDA slot : slot.date = date)
    IN [i \in DOMAIN onDate |-> onDate[i].startTime]

\* A status request that passes the checks made before the slots are computed.
StatusQueryAccepted(request) ==
    /\ request.route = "canteenStatus" => \E c \in Elems(canteens) : c.id = request.id
    /\ request.query.duration \in {<<"3", "0">>, <<"6", "0">>}

\* C22: a status response covers the dates startDate..endDate, both ends
\* included, each day once and alike: the dates reported lie in the range, the
\* slots of one date are contiguous, and every date of the range (startDate
\* and endDate too, and the single date when they are equal) carries the start
\* times that startDate carries. When endDate is before startDate the answer is
\* a 200 response with no slots, not an error.
EveryDateOfTheRangeOnce ==
    [][Served /\ StatusQueryAccepted(req) =>
        /\ res'.status = 200
        /\ \A rep \in Reports(req, res') :
            LET range == req.query.startDate..req.query.endDate IN
            /\ \A i \in DOMAIN rep.slots : rep.slots[i].date \in range
            /\ \A i, j \in DOMAIN rep.slots : i < j => rep.slots[i].date <= rep.slots[j].date
            /\ \A date \in range : StartsOn(rep, date) = StartsOn(rep, req.query.startDate)
            /\ req.query.endDate = req.query.startDate => rep.slots # <<>>
            /\ req.query.endDate < req.query.startDate => rep.slots = <<>>]_vars

\* A status response reports a canteen with no slots at all. Every canteen of
\* SpecSlots is open within every window asked about, so the list is empty
\* only when endDate is before startDate.
EmptyRangeReported ==
    /\ req = NoRequest
    /\ res.status = 200
    /\ \E rep \in Reported :
        /\ rep.slots = <<>>
        /\ \E c \in Elems(canteens) : c.id = rep.canteenId /\ c.workingHours # <<>>

-----------------------------------------------------------------------------
\* The days the outer loop of calculateSlots has yet to enter.
DaysLeft(call) == Max(0, (call.finalDay - call.currentDay) \div MinutesPerDay + 1)

\* A natural number that bounds the loop tests calculateSlots has yet to make:
\* at most MinutesPerDay + 2 for each day to come, and for the day being
\* passed the minutes left before endSlotTime.
StepsLeft(call) ==
    IF call.pc = "return" THEN 0
    ELSE IF call.pc = "days" THEN DaysLeft(call) * (MinutesPerDay + 2) + 1
    ELSE (DaysLeft(call) - 1) * (MinutesPerDay + 2) + 2
         + Max(0, call.endSlotTime - call.currentSlotTime)

\* C23: every request terminates. calculateSlots is entered with a duration of
\* 30 or 60 only; each test of its loops strictly lowers a natural number (the
\* inner loop moves the slot time on, the outer loop the day) and adds at most
\* one slot, so the call returns after finitely many steps with finitely many
\* slots; createReservation answers in one step over the record set. Under
\* the run-to-completion of handlers, a request in flight is always answered.
EveryRequestTerminates ==
    /\ [][/\ InCalculateSlots' => req'.duration \in {30, 60} /\ StepsLeft(req') >= 0
          /\ InCalculateSlots /\ InCalculateSlots' =>
                /\ StepsLeft(req') < StepsLeft(req)
                /\ Len(req'.resultSlots) <= Len(req.resultSlots) + 1
                /\ req.pc = "slots" /\ req'.pc = "slots" =>
                        req'.currentSlotTime > req.currentSlotTime
                /\ req.pc = "slots" /\ req'.pc = "days" =>
                        req'.currentDay > req.currentDay
          /\ req # NoRequest /\ "route" \notin DOMAIN req /\ req' # req =>
                req' = NoRequest /\ res' # NoResponse]_vars
    /\ (req # NoRequest) ~> (req = NoRequest)

\* calculateSlots is inside its inner loop on the second day of a range, with
\* slots of the first day collected.
SecondDayUnderWay ==
    /\ InCalculateSlots
    /\ req.pc = "slots"
    /\ req.currentDay > parseDay(req.query.startDate)
    /\ req.currentSlotTime > parse(formatDate(req.currentDay), req.query.startTime)
    /\ Len(req.resultSlots) >= 2

-----------------------------------------------------------------------------
\* The places a request found free in its canteen when it arrived: the capacity
\* less the Active reservations of the canteen whose span meets its span.
FreeOnArrival(b) ==
    CanteenOf(b).capacity
    - Cardinality({i \in DOMAIN req.before :
            /\ Active(req.before[i])
            /\ req.before[i].canteenId = b.canteenId
            /\ Span(req.before[i]) \cap RequestSpan(b) # {}})

\* Two requests for one canteen and overlapping spans, each finding one place free.
CompeteForLastPlace(b1, b2) ==
    /\ b1.canteenId = b2.canteenId
    /\ CanteenKnown(b1)
    /\ RequestSpan(b1) \cap RequestSpan(b2) # {}
    /\ FreeOnArrival(b1) = 1
    /\ FreeOnArrival(b2) = 1

\* Two requests of one student for overlapping spans, in any canteens.
SameStudentOverlapping(b1, b2) ==
    /\ b1.studentId = b2.studentId
    /\ RequestSpan(b1) \cap RequestSpan(b2) # {}

\* C24: createReservation checks and inserts in one uninterrupted step, so of
\* two requests in flight together, served in either order, that compete for
\* the last free place of a canteen or that are overlapping requests of one
\* student, at most one is answered 201.
CompetingRequestsNotBothAccepted ==
    PairInFlight /\ req.open = {}
    /\ (\/ CompeteForLastPlace(req.pair[1], req.pair[2])
        \/ SameStudentOverlapping(req.pair[1], req.pair[2]))
    => ~(req.status[1] = 201 /\ req.status[2] = 201)

\* Of two students competing for the last free place, the one whose request
\* was second of the pair was accepted and the other was refused for capacity.
SecondOfPairWon ==
    /\ PairInFlight /\ req.open = {}
    /\ CompeteForLastPlace(req.pair[1], req.pair[2])
    /\ req.pair[1].studentId # req.pair[2].studentId
    /\ req.status = <<400, 201>>
    /\ res = Send(400, "Canteen capacity reached for this slot")

-----------------------------------------------------------------------------
\* The messages of the nine checks of createReservation.
RejectionMessages == {CheckMessage[k] : k \in 1..9}

\* C25: a createReservation that is not answered 201 is answered 400 with the
\* message of one of the nine checks and leaves the students, the canteens and
\* the reservations exactly as they were.
RejectionChangesNothing ==
    [][Served /\ res'.status # 201 =>
        /\ res'.status = 400 /\ res'.msg \in RejectionMessages
        /\ students' = students
        /\ canteens' = canteens
        /\ reservations' = reservations]_vars

\* A request was refused for capacity beside the reservation that holds the place.
RefusedBesideReservation ==
    /\ req = NoRequest
    /\ res = Send(400, "Canteen capacity reached for this slot")
    /\ Len(reservations) = 1
    /\ Active(reservations[1])

-----------------------------------------------------------------------------
\* What calculateSlots reports for the one candidate that a reservation request
\* asks for: its date, its start and its duration.
SlotRequested(b) ==
    calculateSlots(CanteenOf(b), b.date, b.date, b.time,
                   formatTime(StartOf(b) + b.duration), b.duration)

\* A request with every field, of a known student for a known canteen, of 30
\* or 60 minutes, starting on the grid and not in the past, whose student
\* holds no Active reservation that overlaps it.
AsksForCandidate(b) ==
    /\ FieldsPresent(b) /\ StudentKnown(b) /\ CanteenKnown(b)
    /\ b.duration \in {30, 60}
    /\ b.time[2] \in {0, 30}
    /\ StartOf(b) >= now
    /\ \A i \in DOMAIN reservations :
            Active(reservations[i]) /\ reservations[i].studentId = b.studentId
            => Span(reservations[i]) \cap RequestSpan(b) = {}

\* C26: the slot calculator and the validator agree. A request that asks for a
\* grid-aligned candidate (known student without an overlapping Active
\* reservation, known canteen, start not in the past) is accepted when
\* calculateSlots reports the candidate with remainingCapacity > 0, is refused
\* for capacity when it reports remainingCapacity 0, and is refused as outside
\* working hours when calculateSlots drops the candidate.
CalculatorAndValidatorAgree ==
    [][Served /\ AsksForCandidate(req) =>
        LET slots == SlotRequested(req) IN
        /\ Len(slots) <= 1
        /\ slots = <<>> => res' = Send(400, "Reservation is outside of working hours")
        /\ slots # <<>> /\ slots[1].remainingCapacity > 0 => res'.status = 201
        /\ slots # <<>> /\ slots[1].remainingCapacity = 0 =>
                res' = Send(400, "Canteen capacity reached for this slot")]_vars

\* Beside the one Active reservation of a canteen, whose slot calculateSlots
\* reports full, a request of the other student was refused for capacity.
FullSlotRefused ==
    /\ req = NoRequest
    /\ res = Send(400, "Canteen capacity reached for this slot")
    /\ Len(students) = 2
    /\ Len(reservations) = 1
    /\ Active(reservations[1])
    /\ CanteenKnown(reservations[1])
    /\ SlotRequested(BodyOf(reservations[1])) # <<>>
    /\ SlotRequested(BodyOf(reservations[1]))[1].remainingCapacity = 0

-----------------------------------------------------------------------------
\* C27: in every state reached through createStudent, createCanteen,
\* deleteCanteen, createReservation and cancelReservation, without
\* updateCanteen, every Active reservation names a canteen of the store.
ActiveReservationsHaveTheirCanteen ==
    \A i \in DOMAIN reservations :
        Active(reservations[i]) =>
            \E k \in DOMAIN canteens : canteens[k].id = reservations[i].canteenId

\* Two reservations of a deleted canteen are Cancelled while another canteen
\* is in the store.
DeletedCanteenBesideKept ==
    /\ Len(canteens) = 1
    /\ Len(reservations) = 2
    /\ \A i \in DOMAIN reservations :
        /\ ~Active(reservations[i])
        /\ reservations[i].canteenId # canteens[1].id
    /\ res = Send(204, "")

-----------------------------------------------------------------------------
\* The record that carries the fields of both records, with the value of the
\* body wherever the body has the field.
IsMergeOf(merged, old, body) ==
    /\ DOMAIN merged = DOMAIN old \cup DOMAIN body
    /\ \A f \in DOMAIN body : merged[f] = body[f]
    /\ \A f \in DOMAIN old \ DOMAIN body : merged[f] = old[f]

\* C28: an updateCanteen answered 200 replaces the first canteen that carries
\* the id of the request by the merge of its fields with those of the body and
\* answers with it; every other canteen, every student and every reservation
\* stays as it was, whatever the new capacity and the new hours.
UpdateReplacesOneCanteen ==
    [][Served /\ res'.status = 200 =>
        \E k \in DOMAIN canteens :
            /\ canteens[k].id = req.id
            /\ \A j \in 1..(k - 1) : canteens[j].id # req.id
            /\ DOMAIN canteens' = DOMAIN canteens
            /\ IsMergeOf(canteens'[k], canteens[k], req.body)
            /\ \A j \in DOMAIN canteens \ {k} : canteens'[j] = canteens[j]
            /\ res' = Json(200, canteens'[k])
            /\ reservations' = reservations
            /\ students' = students]_vars

\* The update just answered cut the hours and lowered the capacity of a
\* canteen that keeps two Active reservations of the half hour now outside its
\* hours.
UpdatedBesideStrandedReservations ==
    /\ req = NoRequest
    /\ res.status = 200
    /\ \E c \in Elems(canteens) :
        /\ res = Json(200, c)
        /\ c.capacity = 1
        /\ Len(reservations) = 2
        /\ \A i \in DOMAIN reservations :
            /\ Active(reservations[i])
            /\ reservations[i].canteenId = c.id
            /\ BlocksHolding(c, reservations[i]) = {}

-----------------------------------------------------------------------------
\* The candidates probed: the half-hour starts from 10:30 to 12:30 of two days.
ProbeDates == {2, 3}
ProbeTimes == {<<10, 30>>, <<11, 0>>, <<11, 30>>, <<12, 0>>, <<12, 30>>}

\* The instants of a reported slot.
SlotSpan(slot, duration) ==
    parse(slot.date, slot.startTime)..(parse(slot.date, slot.startTime) + duration - 1)

\* A step of createReservation that inserted a record.
Inserted == Len(reservations') = Len(reservations) + 1 /\ canteens' = canteens

\* The slots as they are to be reported once the reservation new is in the
\* store: one place less, down to 0, in the slots of its canteen that its span
\* overlaps.
OnePlaceLess(slots, canteenId, duration, new) ==
    [i \in DOMAIN slots |->
        [slots[i] EXCEPT !.remainingCapacity =
            IF /\ canteenId = new.canteenId
               /\ SlotSpan(slots[i], duration) \cap Span(new) # {}
            THEN Max(0, @ - 1)
            ELSE @]]

\* C29: once createReservation has inserted a reservation of canteen c over an
\* interval, calculateSlots reports for every candidate what it reported
\* before (a slot or none), with remainingCapacity max(0, previous - 1) for the
\* slots of c whose span overlaps the interval and the previous value for the
\* other slots of c and for every slot of the other canteens.
InsertionTakesOnePlace ==
    [][Inserted =>
        \A k \in DOMAIN canteens : \A date \in ProbeDates, time \in ProbeTimes :
            \A duration \in {30, 60} :
                SlotAt(canteens[k], date, parse(date, time), duration)'
                    = OnePlaceLess(SlotAt(canteens[k], date, parse(date, time), duration),
                                   canteens[k].id, duration,
                                   reservations'[Len(reservations')])]_vars

\* The reservation just inserted is the second Active one within an hour slot
\* of a canteen of capacity 1: the slot was reported with 0 left before and is
\* reported with 0 left now.
InsertedIntoFullHour ==
    /\ Len(reservations) = 2
    /\ res = Json(201, reservations[2])
    /\ Active(reservations[1])
    /\ reservations[1].canteenId = reservations[2].canteenId
    /\ rStart(reservations[1]) # rStart(reservations[2])
    /\ CanteenKnown(reservations[2])
    /\ CanteenOf(reservations[2]).capacity = 1
    /\ \E slot \in Elems(calculateSlots(CanteenOf(reservations[2]), 2, 2,
                                         <<11, 0>>, <<12, 0>>, 60)) :
            slot.remainingCapacity = 0

-----------------------------------------------------------------------------
\* The hour slot at a start and the two half-hour slots it covers, as
\* calculateSlots reports them; <<>> for one that is not reported.
HourSlot(canteen, date, time) == SlotAt(canteen, date, parse(date, time), 60)
FirstHalf(canteen, date, time) == SlotAt(canteen, date, parse(date, time), 30)
SecondHalf(canteen, date, time) == SlotAt(canteen, date, parse(date, time) + 30, 30)

\* C30: in every state of the store, for every canteen, date and start at
\* which the 60-minute slot and the two 30-minute slots it covers are all
\* reported, the remainingCapacity of the 60-minute slot is at most the lesser
\* of the remainingCapacity of the two 30-minute slots.
HourNoFreerThanItsHalves ==
    \A k \in DOMAIN canteens : \A date \in ProbeDates, time \in ProbeTimes :
        /\ HourSlot(canteens[k], date, time) # <<>>
        /\ FirstHalf(canteens[k], date, time) # <<>>
        /\ SecondHalf(canteens[k], date, time) # <<>>
        => /\ HourSlot(canteens[k], date, time)[1].remainingCapacity
                <= FirstHalf(canteens[k], date, time)[1].remainingCapacity
           /\ HourSlot(canteens[k], date, time)[1].remainingCapacity
                <= SecondHalf(canteens[k], date, time)[1].remainingCapacity

\* An hour slot is reported full while each of its halves has a place left:
\* the two reservations of the canteen lie one in each half.
FullHourOfFreeHalves ==
    \E k \in DOMAIN canteens : \E date \in ProbeDates, time \in ProbeTimes :
        /\ HourSlot(canteens[k], date, time) # <<>>
        /\ FirstHalf(canteens[k], date, time) # <<>>
        /\ SecondHalf(canteens[k], date, time) # <<>>
        /\ HourSlot(canteens[k], date, time)[1].remainingCapacity = 0
        /\ FirstHalf(canteens[k], date, time)[1].remainingCapacity = 1
        /\ SecondHalf(canteens[k], date, time)[1].remainingCapacity = 1

=============================================================================
